---- MODULE Spec2Model ----
(***************************************************************************)
(* A model of the OpenFDA query client (openfda_client.py): the five       *)
(* query operations, the name normalisation and synonym table, the cache   *)
(* keys and remote queries they build, the TTL cache they share and the    *)
(* remote API they call.                                                   *)
(*                                                                         *)
(* Python strings that the code only formats and compares are TLA+         *)
(* strings.  The raw names a caller passes are sequences of one-character  *)
(* strings, so that lower() and strip() are computed character by          *)
(* character.  None is the empty tuple << >> and a present optional value  *)
(* v is the one-element tuple << v >>.                                     *)
(***************************************************************************)
EXTENDS Integers, Sequences, FiniteSets, TLC

VARIABLES
    workload, \* the requests the caller issues in this behaviour
    cache,    \* the TTLCache: entries [key, value, expires], least recently used
              \* first; each entry also records when and by which invocation
              \* it was stored
    now,      \* the monotonic clock, in ticks of REQUEST_DELAY_SECONDS
    fetches,  \* how many invocations have missed the cache and gone to the network
    faults,   \* how many faulty responses the remote API has given
    pc,       \* where the one caller is: "idle", "check", "read" or a fetch step
    cur,      \* the running (or last finished) invocation: arguments and locals
    result    \* what the last finished invocation returned (or raised)

vars == <<workload, cache, now, fetches, faults, pc, cur, result>>

(***************************************************************************)
(* Constants of openfda_client.py                                          *)
(***************************************************************************)
API_BASE_URL == "https://api.fda.gov/drug/event.json"

ttl == 600

maxsize == 256

\* REQUEST_DELAY_SECONDS = 0.25: one tick of the clock is one request delay,
\* and there are four of them in a second.
TicksPerSecond == 4

REQUEST_DELAY_TICKS == 1

DRUG_SYNONYM_MAPPING ==
    ("tylenol" :> "acetaminophen") @@
    ("advil" :> "ibuprofen") @@
    ("motrin" :> "ibuprofen") @@
    ("aleve" :> "naproxen") @@
    ("benadryl" :> "diphenhydramine") @@
    ("claritin" :> "loratadine") @@
    ("zyrtec" :> "cetirizine") @@
    ("allegra" :> "fexofenadine") @@
    ("zantac" :> "ranitidine") @@
    ("pepcid" :> "famotidine") @@
    ("prilosec" :> "omeprazole") @@
    ("lipitor" :> "atorvastatin") @@
    ("zocor" :> "simvastatin") @@
    ("norvasc" :> "amlodipine") @@
    ("hydrochlorothiazide" :> "hctz") @@
    ("glucophage" :> "metformin") @@
    ("synthroid" :> "levothyroxine") @@
    ("ambien" :> "zolpidem") @@
    ("xanax" :> "alprazolam") @@
    ("prozac" :> "fluoxetine") @@
    ("zoloft" :> "sertraline") @@
    ("paxil" :> "paroxetine") @@
    ("lexapro" :> "escitalopram") @@
    ("cymbalta" :> "duloxetine") @@
    ("wellbutrin" :> "bupropion") @@
    ("desyrel" :> "trazodone") @@
    ("eliquis" :> "apixaban") @@
    ("xarelto" :> "rivaroxaban") @@
    ("pradaxa" :> "dabigatran") @@
    ("coumadin" :> "warfarin") @@
    ("januvia" :> "sitagliptin") @@
    ("tradjenta" :> "linagliptin") @@
    ("jardiance" :> "empagliflozin") @@
    ("farxiga" :> "dapagliflozin") @@
    ("invokana" :> "canagliflozin") @@
    ("ozempic" :> "semaglutide") @@
    ("victoza" :> "liraglutide") @@
    ("trulicity" :> "dulaglutide") @@
    ("humira" :> "adalimumab") @@
    ("enbrel" :> "etanercept") @@
    ("remicade" :> "infliximab") @@
    ("stelara" :> "ustekinumab") @@
    ("keytruda" :> "pembrolizumab") @@
    ("opdivo" :> "nivolumab") @@
    ("revlimid" :> "lenalidomide") @@
    ("rituxan" :> "rituximab") @@
    ("herceptin" :> "trastuzumab") @@
    ("avastin" :> "bevacizumab") @@
    ("spiriva" :> "tiotropium") @@
    ("advair" :> "fluticasone/salmeterol") @@
    ("symbicort" :> "budesonide/formoterol") @@
    ("singulair" :> "montelukast") @@
    ("lyrica" :> "pregabalin") @@
    ("neurontin" :> "gabapentin") @@
    ("topamax" :> "topiramate") @@
    ("lamictal" :> "lamotrigine") @@
    ("keppra" :> "levetiracetam") @@
    ("dilantin" :> "phenytoin") @@
    ("tegretol" :> "carbamazepine") @@
    ("depakote" :> "divalproex") @@
    ("vyvanse" :> "lisdexamfetamine") @@
    ("adderall" :> "amphetamine/dextroamphetamine") @@
    ("ritalin" :> "methylphenidate") @@
    ("concerta" :> "methylphenidate") @@
    ("focalin" :> "dexmethylphenidate") @@
    ("strattera" :> "atomoxetine") @@
    ("viagra" :> "sildenafil") @@
    ("cialis" :> "tadalafil") @@
    ("levitra" :> "vardenafil") @@
    ("bactrim" :> "sulfamethoxazole/trimethoprim") @@
    ("keflex" :> "cephalexin") @@
    ("augmentin" :> "amoxicillin/clavulanate") @@
    ("zithromax" :> "azithromycin") @@
    ("levaquin" :> "levofloxacin") @@
    ("cipro" :> "ciprofloxacin") @@
    ("diflucan" :> "fluconazole") @@
    ("tamiflu" :> "oseltamivir") @@
    ("valtrex" :> "valacyclovir") @@
    ("zofran" :> "ondansetron") @@
    ("phenergan" :> "promethazine") @@
    ("imitrex" :> "sumatriptan") @@
    ("flexeril" :> "cyclobenzaprine") @@
    ("soma" :> "carisoprodol") @@
    ("valium" :> "diazepam") @@
    ("ativan" :> "lorazepam") @@
    ("klonopin" :> "clonazepam") @@
    ("restoril" :> "temazepam") @@
    ("ultram" :> "tramadol") @@
    ("percocet" :> "oxycodone/acetaminophen") @@
    ("vicodin" :> "hydrocodone/acetaminophen") @@
    ("oxycontin" :> "oxycodone") @@
    ("dilaudid" :> "hydromorphone") @@
    ("morphine" :> "ms contin") @@
    ("fentanyl" :> "duragesic")

OUTCOME_MAPPING ==
    ("1" :> "Recovered/Resolved")
    @@ ("2" :> "Recovering/Resolving")
    @@ ("3" :> "Not Recovered/Not Resolved")
    @@ ("4" :> "Recovered/Resolved with Sequelae")
    @@ ("5" :> "Fatal")
    @@ ("6" :> "Unknown")

QUALIFICATION_MAPPING ==
    ("1" :> "Physician") @@
    ("2" :> "Pharmacist") @@
    ("3" :> "Other Health Professional") @@
    ("4" :> "Lawyer") @@
    ("5" :> "Consumer or Non-Health Professional")

SERIOUS_OUTCOME_FIELDS ==
    << "seriousnessdeath",
       "seriousnesslifethreatening",
       "seriousnesshospitalization",
       "seriousnessdisabling",
       "seriousnesscongenitalanomali",
       "seriousnessother" >>

(***************************************************************************)
(* Python values                                                           *)
(***************************************************************************)
None == << >>

Some(v) == << v >>

UpperCase ==
    << "A", "B", "C", "D", "E", "F", "G", "H", "I", "J", "K", "L", "M",
       "N", "O", "P", "Q", "R", "S", "T", "U", "V", "W", "X", "Y", "Z" >>

LowerCase ==
    << "a", "b", "c", "d", "e", "f", "g", "h", "i", "j", "k", "l", "m",
       "n", "o", "p", "q", "r", "s", "t", "u", "v", "w", "x", "y", "z" >>

Whitespace == { " ", "\t", "\n", "\r" }

\* str.lower(): every cased character by its lower-case form
lower(s) ==
    [ i \in 1..Len(s) |->
        IF \E j \in 1..Len(UpperCase) : UpperCase[j] = s[i]
        THEN LowerCase[CHOOSE j \in 1..Len(UpperCase) : UpperCase[j] = s[i]]
        ELSE s[i] ]

\* str.strip(): without the leading and the trailing whitespace
strip(s) ==
    LET inner == { i \in 1..Len(s) : s[i] \notin Whitespace }
    IN  IF inner = {} THEN << >>
        ELSE LET first == CHOOSE i \in inner : \A j \in inner : i <= j
                 last  == CHOOSE i \in inner : \A j \in inner : j <= i
             IN  SubSeq(s, first, last)

\* the Python string made of the characters of s
RECURSIVE Str(_)
Str(s) == IF s = << >> THEN "" ELSE Head(s) \o Str(Tail(s))

\* "+AND+".join(terms)
RECURSIVE Join(_, _)
Join(terms, sep) ==
    IF terms = << >> THEN ""
    ELSE IF Len(terms) = 1 THEN terms[1]
    ELSE terms[1] \o sep \o Join(Tail(terms), sep)

\* str() of a tuple of integers: "()", "(20,)", "(20, 50)"
RECURSIVE TupleItems(_)
TupleItems(t) ==
    IF Len(t) = 1 THEN ToString(t[1])
    ELSE ToString(t[1]) \o ", " \o TupleItems(Tail(t))

TupleStr(t) ==
    IF t = << >> THEN "()"
    ELSE IF Len(t) = 1 THEN "(" \o ToString(t[1]) \o ",)"
    ELSE "(" \o TupleItems(t) \o ")"

\* how an f-string renders the optional patient_sex and the optional age_range
SexStr(patient_sex) == IF patient_sex = None THEN "None" ELSE patient_sex[1]

AgeStr(age_range) == IF age_range = None THEN "None" ELSE TupleStr(age_range[1])

\* a character that has an upper-case and a lower-case form
IsCased(ch) ==
    \E j \in 1..Len(UpperCase) : ch = UpperCase[j] \/ ch = LowerCase[j]

\* str.title(): a cased character is put in upper case after an uncased one
\* and at the start, in lower case after a cased one
title(s) ==
    [ i \in 1..Len(s) |->
        IF ~IsCased(s[i]) THEN s[i]
        ELSE LET j == CHOOSE k \in 1..Len(UpperCase) :
                          s[i] = UpperCase[k] \/ s[i] = LowerCase[k]
             IN  IF i = 1 \/ ~IsCased(s[i - 1])
                 THEN UpperCase[j] ELSE LowerCase[j] ]

\* n written with width digits, zeros in front
RECURSIVE Padded(_, _)
Padded(n, width) ==
    IF width = 0 THEN ""
    ELSE Padded(n \div 10, width - 1) \o ToString(n % 10)

\* f"{n:,}": a non-negative integer with a comma between groups of three
\* digits
RECURSIVE Commas(_)
Commas(n) ==
    IF n < 1000 THEN ToString(n)
    ELSE Commas(n \div 1000) \o "," \o Padded(n % 1000, 3)

\* The floats of Python are kept as exact quotients.  (part / whole) * 100
\* is held in hundredths: the integer nearest to part * 10000 / whole, the
\* even one when two are equally near, which is the value that formatting
\* the float with two decimals prints.
Hundredths(part, whole) ==
    LET floor == (part * 10000) \div whole
        twice == 2 * ((part * 10000) % whole)
    IN  IF twice > whole \/ (twice = whole /\ floor % 2 = 1)
        THEN floor + 1 ELSE floor

\* f"{x:.2f}" of the non-negative x that is hundredths / 100
Fixed2(hundredths) ==
    ToString(hundredths \div 100) \o "." \o Padded(hundredths % 100, 2)

(***************************************************************************)
(* Name normalisation, cache keys and remote queries                       *)
(***************************************************************************)
\* a guard that lets every name through
IsBlankNever(name) == FALSE

\* `not drug_name`, `not event_name`: the empty string is the only falsy name
IsBlank(name) == name = << >>

\* a lookup that resolves no brand name
SynonymNone(drug_name_processed) == drug_name_processed

\* DRUG_SYNONYM_MAPPING.get(drug_name_processed, drug_name_processed)
Synonym(drug_name_processed) ==
    IF drug_name_processed \in DOMAIN DRUG_SYNONYM_MAPPING
    THEN DRUG_SYNONYM_MAPPING[drug_name_processed]
    ELSE drug_name_processed

\* drug_name.lower().strip(), then the brand name replaced by the generic one
ProcessDrugName(drug_name) == Synonym(Str(strip(lower(drug_name))))

\* event_name.lower().strip()
ProcessEventName(event_name) == Str(strip(lower(event_name)))

DrugClause(drug_name_processed) ==
    "patient.drug.medicinalproduct:\"" \o drug_name_processed \o "\""

EventClause(event_name_processed) ==
    "patient.reaction.reactionmeddrapt:\"" \o event_name_processed \o "\""

\* `patient_sex and patient_sex in ["1", "2"]`
SexFilterApplies(patient_sex) ==
    patient_sex # None /\ patient_sex[1] \in { "1", "2" }

\* `age_range and len(age_range) == 2`
AgeFilterApplies(age_range) ==
    age_range # None /\ Len(age_range[1]) = 2

\* get_top_adverse_events: search_terms joined by +AND+
TopSearchQuery(drug_name_processed, patient_sex, age_range) ==
    LET search_terms ==
            << DrugClause(drug_name_processed) >>
            \o (IF SexFilterApplies(patient_sex)
                THEN << "patient.patientsex:\"" \o patient_sex[1] \o "\"" >>
                ELSE << >>)
            \o (IF AgeFilterApplies(age_range)
                THEN << "patient.patientonsetage:[" \o ToString(age_range[1][1])
                        \o " TO " \o ToString(age_range[1][2]) \o "]" >>
                ELSE << >>)
    IN  Join(search_terms, "+AND+")

TopCacheKey(drug_name_processed, limit, patient_sex, age_range) ==
    "top_events_" \o drug_name_processed \o "_" \o ToString(limit)
    \o "_" \o SexStr(patient_sex) \o "_" \o AgeStr(age_range)

TopCountUrl(search_query, limit) ==
    API_BASE_URL \o "?search=" \o search_query
    \o "&count=patient.reaction.reactionmeddrapt.exact&limit=" \o ToString(limit)

\* a total query that would count the reports of the whole database
TopTotalUrlUnfiltered(search_query) == API_BASE_URL

TopTotalUrl(search_query) == API_BASE_URL \o "?search=" \o search_query

\* get_drug_event_pair_frequency
PairCacheKey(drug_name_processed, event_name_processed) ==
    "pair_freq_" \o drug_name_processed \o "_" \o event_name_processed

PairDrugUrl(drug_name_processed) ==
    API_BASE_URL \o "?search=" \o DrugClause(drug_name_processed)

PairPairUrl(drug_name_processed, event_name_processed) ==
    API_BASE_URL \o "?search=" \o DrugClause(drug_name_processed)
    \o "+AND+" \o EventClause(event_name_processed)

\* get_serious_outcomes
SeriousCacheKey(drug_name_processed, limit) ==
    "serious_outcomes_aggregated_" \o drug_name_processed \o "_" \o ToString(limit)

SeriousBaseQuery(drug_name_processed) ==
    DrugClause(drug_name_processed) \o "+AND+serious:1"

SeriousTotalUrl(drug_name_processed) ==
    API_BASE_URL \o "?search=" \o SeriousBaseQuery(drug_name_processed)

\* a loop that would ask for the first field every time
SeriousFieldUrlFirst(drug_name_processed, field) ==
    API_BASE_URL \o "?search=" \o SeriousBaseQuery(drug_name_processed)
    \o "+AND+_exists_:" \o SERIOUS_OUTCOME_FIELDS[1]

SeriousFieldUrl(drug_name_processed, field) ==
    API_BASE_URL \o "?search=" \o SeriousBaseQuery(drug_name_processed)
    \o "+AND+_exists_:" \o field

\* get_time_series_data
SeriesCacheKey(drug_name_processed, event_name_processed) ==
    "time_series_" \o drug_name_processed \o "_" \o event_name_processed

SeriesUrl(drug_name_processed, event_name_processed) ==
    API_BASE_URL \o "?search=" \o DrugClause(drug_name_processed)
    \o "+AND+" \o EventClause(event_name_processed) \o "&count=receiptdate"

\* get_report_source_data
SourceCacheKey(drug_name_processed, limit) ==
    "report_source_" \o drug_name_processed \o "_" \o ToString(limit)

SourceUrl(drug_name_processed) ==
    API_BASE_URL \o "?search=" \o DrugClause(drug_name_processed)
    \o "&count=primarysource.qualification"

(***************************************************************************)
(* The TTL cache (cachetools.TTLCache(maxsize=256, ttl=600))               *)
(***************************************************************************)
ttlTicks == ttl * TicksPerSecond

EmptyCache == << >>

HasLink(c, key) == \E i \in 1..Len(c) : c[i].key = key

LinkOf(c, key) == c[CHOOSE i \in 1..Len(c) : c[i].key = key]

\* an entry is live strictly before its expiry time
Live(entry, t) == t < entry.expires

\* `key in cache`: present and not expired
Contains(c, key, t) == HasLink(c, key) /\ Live(LinkOf(c, key), t)

Without(c, key) == SelectSeq(c, LAMBDA e : e.key # key)

\* expire(): the entries that are past their time are dropped
Purged(c, t) == SelectSeq(c, LAMBDA e : Live(e, t))

\* the expiry time given to an entry stored at time t
ExpiryOf(t) == t + ttlTicks

\* `cache[key] = value`: purge, make room (least recently used first), store
\* with a fresh expiry time, as the most recently used entry
SetItem(c, key, value, t, by) ==
    LET live == Purged(c, t)
        room == IF ~HasLink(live, key) /\ Len(live) + 1 > maxsize
                THEN Tail(live) ELSE live
    IN  Append(Without(room, key),
               [key |-> key, value |-> value, expires |-> ExpiryOf(t),
                stored |-> t, by |-> by])

\* a cache whose hits would put off the expiry of the entry
TouchedExtending(c, key) ==
    Append(Without(c, key), [LinkOf(c, key) EXCEPT !.expires = @ + ttlTicks])

\* `cache[key]` on a live entry: the entry becomes the most recently used one,
\* its expiry time stays
Touched(c, key) == Append(Without(c, key), LinkOf(c, key))

(***************************************************************************)
(* JSON bodies, results and the remote API                                 *)
(*                                                                         *)
(* A body {"results": [...], "meta": {"results": {"total": N}}} is the     *)
(* record [results, total], each field None when the body lacks it.  What  *)
(* an operation returns is a record with the fields of Data, or            *)
(* [error |-> message].                                                    *)
(***************************************************************************)
Entry(term, count) == [term |-> term, count |-> count]

Body(results, total) == [results |-> results, total |-> total]

EmptyBody == Body(None, None)

Data(results, total, total_for_drug, total_reports_for_query) ==
    [results |-> results, total |-> total, total_for_drug |-> total_for_drug,
     total_reports_for_query |-> total_reports_for_query]

Error(message) == [error |-> message]

IsError(r) == "error" \in DOMAIN r

\* body.get("meta", {}).get("results", {}).get("total", 0)
TotalOf(body) == IF body.total = None THEN 0 ELSE body.total[1]

\* a response of requests.get: failed when the call itself raised (no
\* response: DNS, timeout, refused connection)
Response(status_code, json) ==
    [failed |-> FALSE, status_code |-> status_code, json |-> json]

TransportFailure == [failed |-> TRUE, status_code |-> 0, json |-> EmptyBody]

\* a raise_for_status that would let every status pass
RaisesForStatusNever(response) == FALSE

\* response.raise_for_status() raises HTTPError for a 4xx or 5xx status
RaisesForStatus(response) ==
    response.status_code >= 400 /\ response.status_code < 600

\* The reports the remote database holds: what it answers, with status 200,
\* to each kind of query while it is healthy.  The client does not ask for an
\* order, so the grouped entries come in an order of the remote's choosing.
FieldCounts == << 2, 5, 0, 5, 1, 4 >>

HealthyBody(kind, i) ==
    CASE kind = "top_count" ->
            Body(Some(<< Entry("RASH", 4), Entry("NAUSEA", 7) >>), None)
      [] kind = "top_total"     -> Body(None, Some(20))
      [] kind = "pair_drug"     -> Body(None, Some(20))
      [] kind = "pair_pair"     -> Body(None, Some(4))
      [] kind = "serious_total" -> Body(None, Some(12))
      [] kind = "serious_field" -> Body(None, Some(FieldCounts[i]))
      [] kind = "series" ->
            Body(Some(<< Entry("20200101", 1), Entry("20200102", 3) >>), None)
      [] kind = "source" ->
            Body(Some(<< Entry("3", 2), Entry("1", 5), Entry("9", 5) >>), None)

\* What the remote may answer instead: a 200 whose body lacks the expected
\* fields, a 404, another HTTP error, or no answer at all.
FaultyResponses ==
    { Response(200, EmptyBody), Response(404, EmptyBody),
      Response(500, EmptyBody), TransportFailure }

\* The fields whose existence query may be answered by a fault: the loop
\* treats every field alike, the first and the last stand for the others.
FaultyFields == { 1, Len(SERIOUS_OUTCOME_FIELDS) }

\* The faults tried on a kind of query.  On the existence query of a field a
\* 200 without a total reads as the count 0 that a healthy field also gives.
FaultsOf(kind, i) ==
    CASE kind = "serious_field" ->
            IF i \in FaultyFields
            THEN { Response(404, EmptyBody), Response(500, EmptyBody),
                   TransportFailure }
            ELSE { }
      [] OTHER -> FaultyResponses

Responses(kind, i, faultsAllowed) ==
    { Response(200, HealthyBody(kind, i)) }
    \cup (IF faultsAllowed THEN FaultsOf(kind, i) ELSE { })

\* str(http_err): the text of the HTTPError that raise_for_status raises
HttpErrorStr(response) == ToString(response.status_code) \o " Error"

\* str(req_err): the text of the exception of a request that got no response
TransportErrorStr == "request failed"

\* how the three kinds of error message begin
NotFoundPrefix == "No data found"

HttpErrorPrefix == "HTTP error occurred: "

NetworkErrorPrefix == "A network request error occurred"

HttpErrorMessage(response) == HttpErrorPrefix \o HttpErrorStr(response)

NetworkErrorTail(e) == ": " \o e

NetworkErrorMessage == NetworkErrorPrefix \o NetworkErrorTail(TransportErrorStr)

(***************************************************************************)
(* Sorting, truncation and code translation                                *)
(***************************************************************************)
\* one step of a stable descending insertion: e goes after every entry whose
\* count is at least its own
RECURSIVE InsertDesc(_, _)
InsertDesc(sorted, e) ==
    IF sorted = << >> THEN << e >>
    ELSE IF Head(sorted).count >= e.count
         THEN << Head(sorted) >> \o InsertDesc(Tail(sorted), e)
         ELSE << e >> \o sorted

\* sorted(results, key=lambda x: x['count'], reverse=True)
RECURSIVE SortedDesc(_)
SortedDesc(results) ==
    IF results = << >> THEN << >>
    ELSE InsertDesc(SortedDesc(SubSeq(results, 1, Len(results) - 1)),
                    results[Len(results)])

\* `if limit: results = results[:limit]`
Limited(results, limit) ==
    IF limit # 0
    THEN SubSeq(results, 1, IF limit < Len(results) THEN limit ELSE Len(results))
    ELSE results

\* The tables in which an operation looks a coded term up: the lookup of
\* get_report_source_data is the only one of the module.
LookupTables == { QUALIFICATION_MAPPING }

\* a translation that would leave the code as it is
QualificationRaw(term_str) == term_str

\* QUALIFICATION_MAPPING.get(term_str, f"Unknown ({term_str})")
Qualification(term_str) ==
    IF term_str \in DOMAIN QUALIFICATION_MAPPING
    THEN QUALIFICATION_MAPPING[term_str]
    ELSE "Unknown (" \o term_str \o ")"

\* field.replace("seriousness", "").replace("anomali", "anomaly").title()
OutcomeName(field) ==
    CASE field = "seriousnessdeath"             -> "Death"
      [] field = "seriousnesslifethreatening"   -> "Lifethreatening"
      [] field = "seriousnesshospitalization"   -> "Hospitalization"
      [] field = "seriousnessdisabling"         -> "Disabling"
      [] field = "seriousnesscongenitalanomali" -> "Congenitalanomaly"
      [] field = "seriousnessother"             -> "Other"

(***************************************************************************)
(* The caller's requests                                                   *)
(***************************************************************************)
Blank == << >>

Spaces == << " " >>

Tylenol == << " ", "T", "y", "l", "e", "n", "o", "l" >>

Acetaminophen ==
    << "a", "c", "e", "t", "a", "m", "i", "n", "o", "p", "h", "e", "n" >>

Rash == << "R", "a", "s", "h" >>

RashPadded == << "r", "a", "s", "h", " " >>

DrugNames == { Blank, Spaces, Tylenol, Acetaminophen }

EventNames == { Blank, Spaces, Rash, RashPadded }

Limits == { 0, 1, 2 }

Sexes == { None, Some("1"), Some("3") }

AgeRanges == { None, Some(<< 20, 50 >>), Some(<< 20 >>) }

Request(op, drug_name, event_name, limit, patient_sex, age_range) ==
    [op |-> op, drug_name |-> drug_name, event_name |-> event_name,
     limit |-> limit, patient_sex |-> patient_sex, age_range |-> age_range]

\* Each operation is called with a base request and with the requests that
\* differ from it in one argument.
TopBase == Request("top", Acetaminophen, Blank, 2, None, None)

PairBase == Request("pair", Acetaminophen, Rash, 0, None, None)

SeriousBase == Request("serious", Acetaminophen, Blank, 2, None, None)

SeriesBase == Request("series", Acetaminophen, Rash, 0, None, None)

SourceBase == Request("source", Acetaminophen, Blank, 2, None, None)

Bases == { TopBase, PairBase, SeriousBase, SeriesBase, SourceBase }

Variants(base) ==
    { [base EXCEPT !.drug_name = d] : d \in DrugNames }
    \cup (IF base.op \in { "pair", "series" }
          THEN { [base EXCEPT !.event_name = e] : e \in EventNames }
          ELSE { [base EXCEPT !.limit = l] : l \in Limits })
    \cup (IF base.op = "top"
          THEN { [base EXCEPT !.patient_sex = s] : s \in Sexes }
               \cup { [base EXCEPT !.age_range = a] : a \in AgeRanges }
          ELSE { })

\* Names that hold the "_" the cache keys are joined with: two calls of
\* get_drug_event_pair_frequency whose names differ in where it stands.
VitaminD == << "v", "i", "t", "a", "m", "i", "n", "_", "d" >>

Vitamin == << "v", "i", "t", "a", "m", "i", "n" >>

DRash == << "d", "_", "r", "a", "s", "h" >>

Underscored ==
    { Request("pair", VitaminD, Rash, 0, None, None),
      Request("pair", Vitamin, DRash, 0, None, None) }

Requests == UNION { Variants(base) : base \in Bases } \cup Underscored

\* A call of top_adverse_events_tool, the handler of the "Top Events" tab; an
\* argument the caller leaves out is None.
ToolCall(drug_name, top_n, patient_sex, min_age, max_age) ==
    [op |-> "top_tool", drug_name |-> drug_name, top_n |-> top_n,
     patient_sex |-> patient_sex, min_age |-> min_age, max_age |-> max_age]

\* the ages at the ends of the sliders and inside them, and no ages at all
Ages ==
    { << None, None >>, << Some(0), Some(120) >>, << Some(20), Some(120) >>,
      << Some(0), Some(50) >>, << Some(20), Some(50) >> }

\* the tool is called with each pair of ages and, over the full range of
\* ages, with each choice of sex and without a number of events
ToolCalls ==
    { ToolCall(Acetaminophen, Some(2), Some("All"), ages[1], ages[2]) :
          ages \in Ages }
    \cup { ToolCall(Acetaminophen, Some(2), sex, Some(0), Some(120)) :
               sex \in { None, Some("Male"), Some("Female") } }
    \cup { ToolCall(Acetaminophen, None, Some("All"), Some(0), Some(120)) }

\* A behaviour's workload: a base request and one of its variants, or the
\* base request of get_top_adverse_events and a call of the tool, or the two
\* calls with underscored names.
Workloads ==
    UNION { { { base, r } : r \in Variants(base) } : base \in Bases }
    \cup { { TopBase, call } : call \in ToolCalls }
    \cup { Underscored }

(***************************************************************************)
(* Bounds of the model                                                     *)
(***************************************************************************)
\* How many invocations of a behaviour may miss the cache and go to the
\* network.
MaxFetches == 2

\* How many responses of a behaviour may be faulty.
MaxFaults == 1

(***************************************************************************)
(* The invocation in progress                                              *)
(***************************************************************************)
NoRequest == Request("none", Blank, Blank, 0, None, None)

Locals(req, drug_name_processed, event_name_processed, cache_key) ==
    [req |-> req,
     drug_name_processed |-> drug_name_processed,
     event_name_processed |-> event_name_processed,
     cache_key |-> cache_key,
     tool |-> None,              \* the call of the tool that made the call
     found |-> "unchecked",      \* how `cache_key in cache` came out
     log |-> << >>,              \* the requests sent, with their responses
     data |-> EmptyBody,         \* the body of the first response
     total |-> 0,                \* total_for_drug, total_serious_reports
     aggregated_results |-> << >>,
     i |-> 0]                    \* the index of the field being queried

Running == [running |-> TRUE]

Raised(exception) == [raised |-> exception]

Init ==
    /\ workload \in Workloads
    /\ cache = EmptyCache
    /\ now = 0
    /\ fetches = 0
    /\ faults = 0
    /\ pc = "idle"
    /\ cur = Locals(NoRequest, "", "", "")
    /\ result = Running

\* the invocation returns value: its locals are dropped
Return(c, value) ==
    /\ pc' = "idle"
    /\ result' = value
    /\ cur' = [c EXCEPT !.data = EmptyBody, !.total = 0,
                        !.aggregated_results = << >>, !.i = 0]

\* the guard clauses of an operation reject the call
Reject(req, message) ==
    /\ Return(Locals(req, "", "", ""), Error(message))
    /\ UNCHANGED <<workload, cache, now, fetches, faults>>

\* the call goes on to the cache lookup
Proceed(req, drug_name_processed, event_name_processed, cache_key) ==
    /\ pc' = "check"
    /\ result' = Running
    /\ cur' = Locals(req, drug_name_processed, event_name_processed, cache_key)
    /\ UNCHANGED <<workload, cache, now, fetches, faults>>

get_top_adverse_events(req) ==
    /\ pc = "idle"
    /\ req \in workload /\ req.op = "top"
    /\ IF IsBlank(req.drug_name)
       THEN Reject(req, "Drug name cannot be empty.")
       ELSE LET drug_name_processed == ProcessDrugName(req.drug_name)
            IN  Proceed(req, drug_name_processed, "",
                        TopCacheKey(drug_name_processed, req.limit,
                                    req.patient_sex, req.age_range))

get_drug_event_pair_frequency(req) ==
    /\ pc = "idle"
    /\ req \in workload /\ req.op = "pair"
    /\ IF IsBlank(req.drug_name) \/ IsBlank(req.event_name)
       THEN Reject(req, "Drug name and event name cannot be empty.")
       ELSE LET drug_name_processed == ProcessDrugName(req.drug_name)
                event_name_processed == ProcessEventName(req.event_name)
            IN  Proceed(req, drug_name_processed, event_name_processed,
                        PairCacheKey(drug_name_processed, event_name_processed))

get_serious_outcomes(req) ==
    /\ pc = "idle"
    /\ req \in workload /\ req.op = "serious"
    /\ IF IsBlank(req.drug_name)
       THEN Reject(req, "Drug name cannot be empty.")
       ELSE LET drug_name_processed == ProcessDrugName(req.drug_name)
            IN  Proceed(req, drug_name_processed, "",
                        SeriousCacheKey(drug_name_processed, req.limit))

get_time_series_data(req) ==
    /\ pc = "idle"
    /\ req \in workload /\ req.op = "series"
    /\ IF IsBlank(req.drug_name) \/ IsBlank(req.event_name)
       THEN Reject(req, "Drug name and event name cannot be empty.")
       ELSE LET drug_name_processed == ProcessDrugName(req.drug_name)
                event_name_processed == ProcessEventName(req.event_name)
            IN  Proceed(req, drug_name_processed, event_name_processed,
                        SeriesCacheKey(drug_name_processed, event_name_processed))

get_report_source_data(req) ==
    /\ pc = "idle"
    /\ req \in workload /\ req.op = "source"
    /\ IF IsBlank(req.drug_name)
       THEN Reject(req, "Drug name cannot be empty.")
       ELSE LET drug_name_processed == ProcessDrugName(req.drug_name)
            IN  Proceed(req, drug_name_processed, "",
                        SourceCacheKey(drug_name_processed, req.limit))

\* `if x is None: x = default`
OrDefault(x, default) == IF x = None THEN default ELSE x[1]

\* the sex code the tool passes for the sex chosen
SexCode(patient_sex) ==
    CASE patient_sex = "Male"   -> Some("1")
      [] patient_sex = "Female" -> Some("2")
      [] OTHER                   -> None

\* a tool that would pass every pair of ages
ToolAgeRangeAlways(min_age, max_age) == Some(<< min_age, max_age >>)

\* `if min_age > 0 or max_age < 120: age_range = (min_age, max_age)`
ToolAgeRange(min_age, max_age) ==
    IF min_age > 0 \/ max_age < 120
    THEN Some(<< min_age, max_age >>) ELSE None

\* the call of get_top_adverse_events the tool makes
ToolRequest(call) ==
    LET top_n == OrDefault(call.top_n, 10)
        patient_sex == OrDefault(call.patient_sex, "all")
        min_age == OrDefault(call.min_age, 0)
        max_age == OrDefault(call.max_age, 120)
    IN  Request("top", call.drug_name, Blank, top_n, SexCode(patient_sex),
                ToolAgeRange(min_age, max_age))

\* top_adverse_events_tool: defaults, sex code and age range, then the call
\* of get_top_adverse_events, whose steps follow; the chart, the table and
\* the header it builds of what the call returns change no state
top_adverse_events_tool(call) ==
    /\ pc = "idle"
    /\ call \in workload /\ call.op = "top_tool"
    /\ LET req == ToolRequest(call)
           drug_name_processed == ProcessDrugName(req.drug_name)
       IN  IF IsBlank(req.drug_name)
           THEN /\ Return([Locals(req, "", "", "") EXCEPT !.tool = Some(call)],
                          Error("Drug name cannot be empty."))
                /\ UNCHANGED <<workload, cache, now, fetches, faults>>
           ELSE /\ pc' = "check"
                /\ result' = Running
                /\ cur' = [Locals(req, drug_name_processed, "",
                                  TopCacheKey(drug_name_processed, req.limit,
                                              req.patient_sex, req.age_range))
                             EXCEPT !.tool = Some(call)]
                /\ UNCHANGED <<workload, cache, now, fetches, faults>>

\* the first fetch step of each operation
FirstStep(op) ==
    CASE op = "top"     -> "top_count"
      [] op = "pair"    -> "pair_drug"
      [] op = "serious" -> "serious_total"
      [] op = "series"  -> "series"
      [] op = "source"  -> "source"

\* `if cache_key in cache:`
CacheCheck ==
    /\ pc = "check"
    /\ IF Contains(cache, cur.cache_key, now)
       THEN /\ pc' = "read"
            /\ cur' = [cur EXCEPT !.found = "hit"]
            /\ fetches' = fetches
       ELSE /\ fetches < MaxFetches
            /\ pc' = FirstStep(cur.req.op)
            /\ cur' = [cur EXCEPT !.found = "miss"]
            /\ fetches' = fetches + 1
    /\ UNCHANGED <<workload, cache, now, faults, result>>

\* a cache that would give the value of its oldest entry
GetItemOldest(c, key) == c[1].value

\* the value `cache[key]` gives for a live entry
GetItem(c, key) == LinkOf(c, key).value

\* `return cache[cache_key]`: KeyError when the entry has expired meanwhile
CacheRead ==
    /\ pc = "read"
    /\ IF Contains(cache, cur.cache_key, now)
       THEN /\ Return(cur, GetItem(cache, cur.cache_key))
            /\ cache' = Touched(cache, cur.cache_key)
       ELSE /\ Return(cur, Raised("KeyError"))
            /\ cache' = cache
    /\ UNCHANGED <<workload, now, fetches, faults>>

(***************************************************************************)
(* The fetch steps: time.sleep(REQUEST_DELAY_SECONDS), requests.get(url)   *)
(* and what the operation does with the response                           *)
(***************************************************************************)
\* the locals once url was requested and response came back
Sent(c, url, response) ==
    [c EXCEPT !.log = Append(@, [url |-> url, response |-> response])]

\* the count of faulty responses once response came back
Counted(response) == IF response \in FaultyResponses THEN faults + 1 ELSE faults

\* a client that would not sleep before a request
AfterNoDelay(t) == t

\* the clock after the sleep that precedes a request
AfterDelay(t) == t + REQUEST_DELAY_TICKS

\* the operation goes on to its next request
Continue(c, step) ==
    /\ pc' = step
    /\ cur' = c
    /\ UNCHANGED <<workload, cache, fetches, result>>

\* a response that is neither an answer nor a 404: a transport failure or
\* another HTTP status
HardFailure(response) ==
    response.failed \/ response.status_code \notin { 200, 404 }

\* what an entry records of the invocation that stores it: its request, how
\* many requests it sent and whether one of them failed
Origin(c) ==
    [req |-> c.req,
     requests |-> Len(c.log),
     partial |-> \E k \in 1..Len(c.log) : HardFailure(c.log[k].response)]

\* an operation that would send a failed request again
FailRetrying(c, message) ==
    /\ pc' = pc
    /\ cur' = c
    /\ UNCHANGED <<workload, cache, fetches, result>>

\* an operation that would store the error it returns
FailCaching(c, message) ==
    /\ cache' = SetItem(cache, c.cache_key, Error(message), now', Origin(c))
    /\ Return(c, Error(message))
    /\ UNCHANGED <<workload, fetches>>

\* the operation returns an error: the cache is left alone
Fail(c, message) ==
    /\ Return(c, Error(message))
    /\ UNCHANGED <<workload, cache, fetches>>

\* `cache[cache_key] = data; return data`
StoreAndReturn(c, data) ==
    /\ cache' = SetItem(cache, c.cache_key, data, now', Origin(c))
    /\ Return(c, data)
    /\ UNCHANGED <<workload, fetches>>

TopNotFoundTail(drug_name) ==
    " for '" \o Str(drug_name)
    \o "' with the specified filters. The drug may not be in the database, "
    \o "or there may be no reports matching the filter criteria."

TopNotFoundMessage(drug_name) == NotFoundPrefix \o TopNotFoundTail(drug_name)

\* get_top_adverse_events: the grouped count query
TopCountQuery ==
    /\ pc = "top_count"
    /\ now' = AfterDelay(now)
    /\ \E response \in Responses("top_count", 0, faults < MaxFaults) :
        /\ faults' = Counted(response)
        /\ LET search_query == TopSearchQuery(cur.drug_name_processed,
                                   cur.req.patient_sex, cur.req.age_range)
               c == Sent(cur, TopCountUrl(search_query, cur.req.limit), response)
           IN  IF response.failed THEN Fail(c, NetworkErrorMessage)
               ELSE IF RaisesForStatus(response)
               THEN IF response.status_code = 404
                    THEN Fail(c, TopNotFoundMessage(cur.req.drug_name))
                    ELSE Fail(c, HttpErrorMessage(response))
               ELSE Continue([c EXCEPT !.data = response.json], "top_total")

\* get_top_adverse_events: the total query; the except clause looks at the
\* status of `response`, the response of the count query
TopTotalQuery ==
    /\ pc = "top_total"
    /\ now' = AfterDelay(now)
    /\ \E total_response \in Responses("top_total", 0, faults < MaxFaults) :
        /\ faults' = Counted(total_response)
        /\ LET search_query == TopSearchQuery(cur.drug_name_processed,
                                   cur.req.patient_sex, cur.req.age_range)
               c == Sent(cur, TopTotalUrl(search_query), total_response)
               response == cur.log[1].response
           IN  IF total_response.failed THEN Fail(c, NetworkErrorMessage)
               ELSE IF RaisesForStatus(total_response)
               THEN IF response.status_code = 404
                    THEN Fail(c, TopNotFoundMessage(cur.req.drug_name))
                    ELSE Fail(c, HttpErrorMessage(total_response))
               ELSE StoreAndReturn(c,
                       Data(cur.data.results, cur.data.total, None,
                            Some(TotalOf(total_response.json))))

PairNotFoundTail(drug_name) ==
    " for drug '" \o Str(drug_name)
    \o "'. It may be misspelled or not in the database."

PairNotFoundMessage(drug_name) == NotFoundPrefix \o PairNotFoundTail(drug_name)

\* get_drug_event_pair_frequency: the drug-only query
PairDrugQuery ==
    /\ pc = "pair_drug"
    /\ now' = AfterDelay(now)
    /\ \E drug_response \in Responses("pair_drug", 0, faults < MaxFaults) :
        /\ faults' = Counted(drug_response)
        /\ LET c == Sent(cur, PairDrugUrl(cur.drug_name_processed), drug_response)
           IN  IF drug_response.failed THEN Fail(c, NetworkErrorMessage)
               ELSE IF RaisesForStatus(drug_response)
               THEN IF drug_response.status_code = 404
                    THEN Fail(c, PairNotFoundMessage(cur.req.drug_name))
                    ELSE Fail(c, HttpErrorMessage(drug_response))
               ELSE Continue([c EXCEPT !.total = TotalOf(drug_response.json)],
                             "pair_pair")

\* a pair query whose 404 would be raised as any other status is
PairToleratedNever(pair_response) == FALSE

\* `elif pair_response.status_code != 404:` a 404 on the pair is not raised
PairTolerated(pair_response) == pair_response.status_code = 404

\* get_drug_event_pair_frequency: the pair query; a 404 means no reports
PairPairQuery ==
    /\ pc = "pair_pair"
    /\ now' = AfterDelay(now)
    /\ \E pair_response \in Responses("pair_pair", 0, faults < MaxFaults) :
        /\ faults' = Counted(pair_response)
        /\ LET c == Sent(cur, PairPairUrl(cur.drug_name_processed,
                                          cur.event_name_processed), pair_response)
               total_for_pair ==
                   IF pair_response.status_code = 200
                   THEN TotalOf(pair_response.json) ELSE 0
           IN  IF pair_response.failed THEN Fail(c, NetworkErrorMessage)
               ELSE IF /\ pair_response.status_code # 200
                       /\ ~PairTolerated(pair_response)
                       /\ RaisesForStatus(pair_response)
               THEN Fail(c, HttpErrorMessage(pair_response))
               ELSE StoreAndReturn(c,
                       Data(None, Some(total_for_pair), Some(cur.total), None))

\* get_serious_outcomes: the total query; its failure is passed over
SeriousTotalQuery ==
    /\ pc = "serious_total"
    /\ now' = AfterDelay(now)
    /\ \E response \in Responses("serious_total", 0, faults < MaxFaults) :
        /\ faults' = Counted(response)
        /\ LET c == Sent(cur, SeriousTotalUrl(cur.drug_name_processed), response)
               total_serious_reports ==
                   IF ~response.failed /\ response.status_code = 200
                   THEN TotalOf(response.json) ELSE 0
           IN  Continue([c EXCEPT !.total = total_serious_reports, !.i = 1],
                        "serious_field")

\* the one except clause of the loop words every failure alike
SeriousFieldErrorTail(field, e) == " for field " \o field \o ": " \o e

SeriousFieldErrorMessage(field, e) ==
    NetworkErrorPrefix \o SeriousFieldErrorTail(field, e)

SeriousNoDataMessage(drug_name) ==
    "No serious outcome data found for drug: '" \o Str(drug_name) \o "'."

\* get_serious_outcomes: the existence query of field i and, after the last
\* field, the aggregation
SeriousFieldQuery ==
    /\ pc = "serious_field"
    /\ now' = AfterDelay(now)
    /\ \E response \in Responses("serious_field", cur.i, faults < MaxFaults) :
        /\ faults' = Counted(response)
        /\ LET field == SERIOUS_OUTCOME_FIELDS[cur.i]
               sent == Sent(cur, SeriousFieldUrl(cur.drug_name_processed, field),
                            response)
               total_count == TotalOf(response.json)
               aggregated_results ==
                   IF response.status_code = 200 /\ total_count > 0
                   THEN Append(cur.aggregated_results,
                               Entry(OutcomeName(field), total_count))
                   ELSE cur.aggregated_results
               c == [sent EXCEPT !.aggregated_results = aggregated_results]
           IN  IF response.failed
               THEN Fail(c, SeriousFieldErrorMessage(field, TransportErrorStr))
               ELSE IF /\ response.status_code # 200
                       /\ response.status_code # 404
                       /\ RaisesForStatus(response)
               THEN Fail(c, SeriousFieldErrorMessage(field, HttpErrorStr(response)))
               ELSE IF cur.i < Len(SERIOUS_OUTCOME_FIELDS)
               THEN Continue([c EXCEPT !.i = cur.i + 1], "serious_field")
               ELSE IF aggregated_results = << >>
               THEN Fail(c, SeriousNoDataMessage(cur.req.drug_name))
               ELSE StoreAndReturn(c,
                       Data(Some(Limited(SortedDesc(aggregated_results),
                                         cur.req.limit)),
                            None, None, Some(cur.total)))

SeriesNotFoundTail(drug_name, event_name) ==
    " for drug '" \o Str(drug_name) \o "' and event '"
    \o Str(event_name) \o "'. They may be misspelled or not in the database."

SeriesNotFoundMessage(drug_name, event_name) ==
    NotFoundPrefix \o SeriesNotFoundTail(drug_name, event_name)

\* get_time_series_data: its one query
SeriesQuery ==
    /\ pc = "series"
    /\ now' = AfterDelay(now)
    /\ \E response \in Responses("series", 0, faults < MaxFaults) :
        /\ faults' = Counted(response)
        /\ LET c == Sent(cur, SeriesUrl(cur.drug_name_processed,
                                        cur.event_name_processed), response)
           IN  IF response.failed THEN Fail(c, NetworkErrorMessage)
               ELSE IF RaisesForStatus(response)
               THEN IF response.status_code = 404
                    THEN Fail(c, SeriesNotFoundMessage(cur.req.drug_name,
                                                       cur.req.event_name))
                    ELSE Fail(c, HttpErrorMessage(response))
               ELSE StoreAndReturn(c,
                       Data(response.json.results, response.json.total, None, None))

SourceNotFoundTail(drug_name) == " for drug: '" \o Str(drug_name) \o "'."

SourceNotFoundMessage(drug_name) ==
    NotFoundPrefix \o SourceNotFoundTail(drug_name)

\* sum(item['count'] for item in results)
RECURSIVE SumOfCounts(_)
SumOfCounts(results) ==
    IF results = << >> THEN 0
    ELSE Head(results).count + SumOfCounts(Tail(results))

\* the results with every qualification code replaced by its label
Translated(results) ==
    [ k \in 1..Len(results) |->
        Entry(Qualification(results[k].term), results[k].count) ]

\* get_report_source_data: its one query, then sort, total, translate, limit
SourceQuery ==
    /\ pc = "source"
    /\ now' = AfterDelay(now)
    /\ \E response \in Responses("source", 0, faults < MaxFaults) :
        /\ faults' = Counted(response)
        /\ LET c == Sent(cur, SourceUrl(cur.drug_name_processed), response)
               data == response.json
           IN  IF response.failed THEN Fail(c, NetworkErrorMessage)
               ELSE IF RaisesForStatus(response)
               THEN IF response.status_code = 404
                    THEN Fail(c, SourceNotFoundMessage(cur.req.drug_name))
                    ELSE Fail(c, HttpErrorMessage(response))
               ELSE IF data.results # None
               THEN LET sorted == SortedDesc(data.results[1])
                    IN  StoreAndReturn(c,
                           Data(Some(Limited(Translated(sorted), cur.req.limit)),
                                data.total, None, Some(SumOfCounts(sorted))))
               ELSE StoreAndReturn(c, Data(None, data.total, None, None))

(***************************************************************************)
(* Time                                                                    *)
(***************************************************************************)
\* the expiry times that lie ahead
Expiries == { cache[k].expires : k \in { j \in 1..Len(cache) : now < cache[j].expires } }

\* the entry found by the membership test expires before it is read
Expire ==
    /\ pc = "read"
    /\ Contains(cache, cur.cache_key, now)
    /\ now' = LinkOf(cache, cur.cache_key).expires
    /\ UNCHANGED <<workload, cache, fetches, faults, pc, cur, result>>

\* the caller stays idle until one tick before an entry expires, or until it
\* expires
Wait ==
    /\ pc = "idle"
    /\ \E t \in Expiries : now' \in { t - 1, t } /\ now' > now
    /\ UNCHANGED <<workload, cache, fetches, faults, pc, cur, result>>

Next ==
    \/ \E req \in Requests : get_top_adverse_events(req)
    \/ \E req \in Requests : get_drug_event_pair_frequency(req)
    \/ \E req \in Requests : get_serious_outcomes(req)
    \/ \E req \in Requests : get_time_series_data(req)
    \/ \E req \in Requests : get_report_source_data(req)
    \/ \E call \in ToolCalls : top_adverse_events_tool(call)
    \/ CacheCheck
    \/ CacheRead
    \/ TopCountQuery
    \/ TopTotalQuery
    \/ PairDrugQuery
    \/ PairPairQuery
    \/ SeriousTotalQuery
    \/ SeriousFieldQuery
    \/ SeriesQuery
    \/ SourceQuery
    \/ Expire
    \/ Wait

Spec == Init /\ [][Next]_vars

(***************************************************************************)
(* The text of the pair frequency tool                                     *)
(***************************************************************************)
\* the sentence that gives the share of the pair in the reports of the drug
PercentageString(percentage, total_for_drug, drug_name) ==
    "\n\nThis combination accounts for **" \o percentage \o "%** of the **"
    \o Commas(total_for_drug) \o "** total adverse event reports for '"
    \o Str(title(drug_name)) \o "' in the database."

PairFrequencyText(total_reports, percentage_string, drug_name, event_name) ==
    "Found **" \o Commas(total_reports)
    \o "** reports for the combination of '" \o Str(title(drug_name))
    \o "' and '" \o Str(title(event_name)) \o "'." \o percentage_string
    \o "\n\n**Source**: FDA FAERS via OpenFDA\n"
    \o "**Disclaimer**: Spontaneous reports do not prove causation. "
    \o "Consult a healthcare professional."

\* a formatter that would give the share whatever the total of the drug
HasPercentageAlways(total_for_drug) == TRUE

\* `if total_for_drug > 0:`
HasPercentage(total_for_drug) == total_for_drug > 0

\* format_pair_frequency_results: the text for what
\* get_drug_event_pair_frequency returned; a division by 0 raises
format_pair_frequency_results(data, drug_name, event_name) ==
    IF IsError(data)
    THEN [text |-> "An error occurred: " \o data.error]
    ELSE LET total_reports == OrDefault(data.total, 0)
             total_for_drug == OrDefault(data.total_for_drug, 0)
         IN  IF ~HasPercentage(total_for_drug)
             THEN [text |-> PairFrequencyText(total_reports, "",
                                              drug_name, event_name)]
             ELSE IF total_for_drug = 0 THEN Raised("ZeroDivisionError")
             ELSE [text |->
                      PairFrequencyText(total_reports,
                          PercentageString(
                              Fixed2(Hundredths(total_reports, total_for_drug)),
                              total_for_drug, drug_name),
                          drug_name, event_name)]

\* The totals the formatter is given: small ones, and 50 reports of the pair
\* among 1000 of the drug.
PairTotals == 0..6 \cup { 50 }

DrugTotals == 0..6 \cup { 1000 }

\* what get_drug_event_pair_frequency may have returned to the tool
FormatInputs ==
    { Data(None, Some(total), Some(total_for_drug), None) :
          total \in PairTotals, total_for_drug \in DrugTotals }
    \cup { Error(NetworkErrorMessage) }

\* the calls of the tool: a generic name and a brand name
FormatRequests == { PairBase, [PairBase EXCEPT !.drug_name = Tylenol] }

\* drug_event_stats_tool has called get_drug_event_pair_frequency, which
\* returned data
FormatInit ==
    /\ workload = FormatRequests
    /\ cache = EmptyCache
    /\ now = 0
    /\ fetches = 0
    /\ faults = 0
    /\ pc = "idle"
    /\ \E req \in FormatRequests :
          cur = Locals(req, ProcessDrugName(req.drug_name),
                       ProcessEventName(req.event_name),
                       PairCacheKey(ProcessDrugName(req.drug_name),
                                    ProcessEventName(req.event_name)))
    /\ result \in FormatInputs

\* drug_event_stats_tool: it returns the text of what the call returned
drug_event_stats_tool ==
    /\ pc = "idle"
    /\ cur.req.op = "pair"
    /\ pc' = "formatted"
    /\ result' = format_pair_frequency_results(result, cur.req.drug_name,
                                               cur.req.event_name)
    /\ UNCHANGED <<workload, cache, now, fetches, faults, cur>>

FormatNext == drug_event_stats_tool

FormatSpec == FormatInit /\ [][FormatNext]_vars

(***************************************************************************)
(* What an operation computes of a request                                 *)
(***************************************************************************)
\* the operations that take an event name
NeedsEvent(req) == req.op \in { "pair", "series" }

\* the cache key an operation builds for a request
KeyOf(req) ==
    LET drug_name_processed == ProcessDrugName(req.drug_name)
        event_name_processed == ProcessEventName(req.event_name)
    IN  CASE req.op = "top" ->
                TopCacheKey(drug_name_processed, req.limit,
                            req.patient_sex, req.age_range)
          [] req.op = "pair" ->
                PairCacheKey(drug_name_processed, event_name_processed)
          [] req.op = "serious" ->
                SeriousCacheKey(drug_name_processed, req.limit)
          [] req.op = "series" ->
                SeriesCacheKey(drug_name_processed, event_name_processed)
          [] req.op = "source" ->
                SourceCacheKey(drug_name_processed, req.limit)

\* the URLs an operation requests for a request, in the order it sends them
UrlsOf(req) ==
    LET drug_name_processed == ProcessDrugName(req.drug_name)
        event_name_processed == ProcessEventName(req.event_name)
        search_query == TopSearchQuery(drug_name_processed,
                                       req.patient_sex, req.age_range)
    IN  CASE req.op = "top" ->
                << TopCountUrl(search_query, req.limit),
                   TopTotalUrl(search_query) >>
          [] req.op = "pair" ->
                << PairDrugUrl(drug_name_processed),
                   PairPairUrl(drug_name_processed, event_name_processed) >>
          [] req.op = "serious" ->
                << SeriousTotalUrl(drug_name_processed) >>
                \o [ i \in 1..Len(SERIOUS_OUTCOME_FIELDS) |->
                       SeriousFieldUrl(drug_name_processed,
                                       SERIOUS_OUTCOME_FIELDS[i]) ]
          [] req.op = "series" ->
                << SeriesUrl(drug_name_processed, event_name_processed) >>
          [] req.op = "source" ->
                << SourceUrl(drug_name_processed) >>

(***************************************************************************)
(* Properties                                                              *)
(***************************************************************************)
\* an operation has been called
Called == cur.req.op # "none"

\* the operation called last has returned
Returned == Called /\ pc = "idle"

IsRaised(r) == "raised" \in DOMAIN r

\* the entry of the key of the invocation
CurLink == LinkOf(cache, cur.cache_key)

\* the invocation was served from the cache
Served == Returned /\ cur.found = "hit" /\ ~IsRaised(result)

\* a name the guard clauses are there for
EmptyName(req) ==
    req.drug_name = Blank \/ (NeedsEvent(req) /\ req.event_name = Blank)

\* a name that is empty once trimmed
TrimsToEmpty(req) ==
    \/ strip(req.drug_name) = << >>
    \/ NeedsEvent(req) /\ strip(req.event_name) = << >>

\* C1: two successive calls of get_top_adverse_events with identical
\* parameters within the TTL cause exactly one network call in total, the
\* second being served from the cache, and a call that differs from a cached
\* one only in limit is not served by its entry.
C1_OneNetworkCallForTwoCalls ==
    /\ (Served /\ cur.req.op = "top" /\ CurLink.by.req = cur.req)
          => CurLink.by.requests + Len(cur.log) = 1
    /\ \A k \in 1..Len(cache) :
          ( /\ Called /\ cur.req.op = "top" /\ cur.found # "unchecked"
            /\ cache[k].by.req.limit # cur.req.limit
            /\ [cache[k].by.req EXCEPT !.limit = cur.req.limit] = cur.req )
          => cache[k].key # cur.cache_key

\* C2: a call of any of the five operations with an empty drug name, or of
\* the pair frequency or the time series with an empty event name, returns an
\* error at once: no request is sent and the cache is as it was.
C2_EmptyNameRejected ==
    [][ (pc = "idle" /\ now' = now /\ cur'.req.op # "none" /\ EmptyName(cur'.req))
            => /\ pc' = "idle"
               /\ IsError(result')
               /\ cur'.found = "unchecked"
               /\ cur'.log = << >>
               /\ cache' = cache ]_vars

\* an empty event name was rejected while the cache held an entry
C2_Witness ==
    /\ Returned /\ cur.req.op = "pair"
    /\ cur.req.drug_name # Blank /\ cur.req.event_name = Blank
    /\ IsError(result) /\ cur.log = << >>
    /\ cache # EmptyCache

\* C3: a call whose drug name is empty once trimmed, or whose event name is
\* in the operations that take one, returns an error without any request
\* having been sent.
C3_TrimmedEmptyNameRejected ==
    (Called /\ TrimsToEmpty(cur.req))
        => (pc = "idle" /\ IsError(result) /\ cur.log = << >>)

\* the request with the generic name in place of the brand name
GenericOf(req) == [req EXCEPT !.drug_name = Acetaminophen]

\* C4: every brand name of the table resolves to what its generic name
\* resolves to; a call with the brand name, whatever its case and the
\* whitespace around it, has the cache key and sends the requests of the call
\* with the generic name, and is served from the cache while the entry of the
\* generic name is live; a name that is not in the table is kept as it is and
\* is not rejected.
C4_BrandAsGeneric ==
    /\ \A brand \in DOMAIN DRUG_SYNONYM_MAPPING :
          Synonym(brand) = Synonym(DRUG_SYNONYM_MAPPING[brand])
    /\ (Called /\ cur.req.drug_name = Tylenol /\ ~EmptyName(cur.req)) =>
          /\ cur.cache_key = KeyOf(GenericOf(cur.req))
          /\ \A k \in 1..Len(cur.log) :
                cur.log[k].url = UrlsOf(GenericOf(cur.req))[k]
          /\ (cur.found = "miss" /\ cur.log = << >>) =>
                ~( /\ HasLink(cache, KeyOf(GenericOf(cur.req)))
                   /\ now < LinkOf(cache, KeyOf(GenericOf(cur.req))).expires )
    /\ (Called /\ cur.req.drug_name = Acetaminophen /\ ~EmptyName(cur.req)) =>
          /\ cur.drug_name_processed = Str(Acetaminophen)
          /\ cur.found = "unchecked" => pc = "check"

\* a call with the brand name was served the entry stored by a call with the
\* generic name
C4_Witness ==
    /\ Served /\ cur.req.drug_name = Tylenol
    /\ CurLink.by.req = GenericOf(cur.req)
    /\ result = CurLink.value

\* what a request comes to at the remote API
Effective(req) ==
    [op |-> req.op,
     drug |-> ProcessDrugName(req.drug_name),
     event |-> IF NeedsEvent(req) THEN ProcessEventName(req.event_name) ELSE "",
     limit |-> req.limit,
     sex |-> IF SexFilterApplies(req.patient_sex) THEN req.patient_sex ELSE None,
     age |-> IF AgeFilterApplies(req.age_range) THEN req.age_range ELSE None]

\* C5: a call that comes to the same remote request as the call that stored
\* an entry (same resolved drug name, event name, limit and effective sex and
\* age filters) has the key of that entry.
C5_SameRequestSameKey ==
    \A k \in 1..Len(cache) :
        ( /\ Called /\ ~EmptyName(cur.req)
          /\ Effective(cache[k].by.req) = Effective(cur.req) )
        => cache[k].key = cur.cache_key

\* C6: an entry is not served once more than the TTL has passed since it was
\* stored; the call that finds its key expired misses and goes on to the
\* network; the expiry time of an entry is its store time plus the TTL and a
\* hit leaves it as it is.
C6_NotServedAfterTtl ==
    [][ /\ (pc = "read" /\ pc' = "idle" /\ ~IsRaised(result')) =>
              /\ now - CurLink.stored <= ttlTicks
              /\ LinkOf(cache', cur.cache_key).expires = CurLink.stored + ttlTicks
        /\ ( /\ pc = "check" /\ pc' # "check"
             /\ HasLink(cache, cur.cache_key)
             /\ now >= CurLink.stored + ttlTicks )
           => (cur'.found = "miss" /\ pc' = FirstStep(cur.req.op))
        /\ \A k \in 1..Len(cache') :
              cache'[k].expires = cache'[k].stored + ttlTicks ]_vars

\* a call missed on a key whose expired entry the cache still holds
C6_Witness ==
    /\ Called /\ cur.found = "miss" /\ pc = FirstStep(cur.req.op)
    /\ HasLink(cache, cur.cache_key)
    /\ now >= CurLink.stored + ttlTicks

\* C7: in get_drug_event_pair_frequency a 404 on the drug query gives the
\* error that the drug was not found and the pair query is not sent; a 404 on
\* the pair query gives a result with total 0 and the total_for_drug that the
\* drug query answered.
C7_PairNotFound ==
    (Called /\ cur.req.op = "pair") =>
        /\ ( /\ Len(cur.log) >= 1
             /\ ~cur.log[1].response.failed
             /\ cur.log[1].response.status_code = 404 )
           => /\ pc = "idle"
              /\ result = Error(PairNotFoundMessage(cur.req.drug_name))
              /\ Len(cur.log) = 1
        /\ ( /\ Len(cur.log) = 2
             /\ ~cur.log[2].response.failed
             /\ cur.log[2].response.status_code = 404 )
           => /\ pc = "idle"
              /\ ~IsError(result)
              /\ result.total = Some(0)
              /\ result.total_for_drug = Some(TotalOf(cur.log[1].response.json))

\* the pair query was answered 404 after the drug query had counted 20 reports
C7_Witness ==
    /\ Returned /\ cur.req.op = "pair"
    /\ Len(cur.log) = 2
    /\ cur.log[2].response = Response(404, EmptyBody)
    /\ result = Data(None, Some(0), Some(20), None)

\* C8: an operation looks its key up before it sends anything: while the
\* key is present and unexpired it goes on to read the entry, sends nothing
\* and returns the value stored under the key; a request is only sent by an
\* invocation whose lookup missed.
C8_CacheBeforeRemote ==
    [][ LET present == /\ HasLink(cache, cur.cache_key)
                       /\ now < CurLink.expires
        IN  /\ (pc = "check" /\ present)
                => (pc' = "read" /\ cur'.log = << >>)
            /\ (pc = "read" /\ present /\ now' = now)
                => /\ pc' = "idle"
                   /\ result' = CurLink.value
                   /\ cur'.log = << >>
            /\ (cur'.log # cur.log /\ cur'.log # << >>)
                => (cur.found = "miss" /\ ~present) ]_vars

\* a call was served its entry, not the other entry of the cache
C8_Witness ==
    /\ Served /\ cur.log = << >>
    /\ Len(cache) = 2
    /\ result = CurLink.value
    /\ cache[1].value # result

\* C9: the cache only changes in the step that returns a result that is not
\* an error, so an operation that returns an error has written nothing, and
\* after a miss that ended in an error the key is still not in the cache.
C9_ErrorsNotCached ==
    [][ /\ cache' # cache => (pc' = "idle" /\ ~IsError(result'))
        /\ (pc' = "idle" /\ IsError(result') /\ cur'.found = "miss")
              => ~( /\ HasLink(cache', cur'.cache_key)
                    /\ now' < LinkOf(cache', cur'.cache_key).expires ) ]_vars

\* an operation returned an error after a request while the cache held the
\* entry of another key
C9_Witness ==
    /\ Returned /\ IsError(result)
    /\ Len(cur.log) >= 1
    /\ cache # EmptyCache
    /\ ~HasLink(cache, cur.cache_key)

\* C10: no entry of the cache was stored by an invocation one of whose
\* requests failed with a transport failure or a status other than 404.
C10_PartialNotCached ==
    \A k \in 1..Len(cache) : ~cache[k].by.partial

\* the response to the k-th request of the invocation
Answer(k) == cur.log[k].response

\* a response with status 200
Answered200(response) == ~response.failed /\ response.status_code = 200

\* C11: when the count query of get_top_adverse_events is answered 200 and
\* its total query fails (a transport failure or a status other than 200),
\* the operation returns the grouped entries with total_reports_for_query 0,
\* not an error.
C11_TopTotalFailureTolerated ==
    ( /\ Called /\ cur.req.op = "top"
      /\ Len(cur.log) = 2
      /\ Answered200(Answer(1))
      /\ ~Answered200(Answer(2)) )
    => /\ pc = "idle"
       /\ ~IsError(result)
       /\ result.results = Answer(1).json.results
       /\ result.total_reports_for_query = Some(0)

\* C12: on a miss get_serious_outcomes asks for the total first and then for
\* each field of SERIOUS_OUTCOME_FIELDS once, in list order, seven requests
\* when no field query fails; when the total query fails, whatever the
\* failure, the operation goes on to the fields and a result it returns has
\* total_reports_for_query 0.
C12_SeriousRequestOrder ==
    (Called /\ cur.req.op = "serious") =>
        /\ Len(cur.log) <= 1 + Len(SERIOUS_OUTCOME_FIELDS)
        /\ \A k \in 1..Len(cur.log) :
              cur.log[k].url =
                  IF k = 1
                  THEN SeriousTotalUrl(cur.drug_name_processed)
                  ELSE SeriousFieldUrl(cur.drug_name_processed,
                                       SERIOUS_OUTCOME_FIELDS[k - 1])
        /\ \A j, k \in 1..Len(cur.log) :
              j # k => cur.log[j].url # cur.log[k].url
        /\ ( /\ Returned /\ cur.found = "miss"
             /\ \A k \in 2..Len(cur.log) : ~HardFailure(Answer(k)) )
           => Len(cur.log) = 1 + Len(SERIOUS_OUTCOME_FIELDS)
        /\ (Len(cur.log) >= 1 /\ ~Answered200(Answer(1))) =>
              /\ Len(cur.log) = 1 => pc = "serious_field"
              /\ (Returned /\ ~IsError(result)) =>
                    result.total_reports_for_query = Some(0)

\* the total query failed in transport, the six field queries were sent and
\* the result has the total 0
C12_Witness ==
    /\ Returned /\ cur.req.op = "serious"
    /\ Len(cur.log) = 7
    /\ Answer(1) = TransportFailure
    /\ ~IsError(result)
    /\ result.total_reports_for_query = Some(0)

\* the elements of a sequence
Range(seq) == { seq[k] : k \in 1..Len(seq) }

\* the requests of a get_serious_outcomes invocation whose field was counted:
\* answered 200 with a positive total
CountedFields ==
    { k \in 2..Len(cur.log) :
        Answered200(Answer(k)) /\ TotalOf(Answer(k).json) > 0 }

\* the entry of the field asked for by request k
FieldEntry(k) ==
    Entry(OutcomeName(SERIOUS_OUTCOME_FIELDS[k - 1]), TotalOf(Answer(k).json))

\* C13: a result of get_serious_outcomes holds entries of the fields that
\* answered 200 with a positive count only, all of them when the limit does
\* not cut it, so a field answered 404 is left out while the others are kept;
\* a field query that fails in transport or with a status other than 404 is
\* the last request of the invocation, which returns that error.
C13_SeriousFieldFailures ==
    (Called /\ cur.req.op = "serious" /\ cur.found = "miss") =>
        /\ (Returned /\ ~IsError(result)) =>
              /\ Range(result.results[1]) \subseteq
                    { FieldEntry(k) : k \in CountedFields }
              /\ Len(result.results[1]) =
                    IF cur.req.limit # 0
                       /\ cur.req.limit < Cardinality(CountedFields)
                    THEN cur.req.limit
                    ELSE Cardinality(CountedFields)
        /\ \A k \in 2..Len(cur.log) :
              HardFailure(Answer(k)) =>
                  /\ pc = "idle"
                  /\ k = Len(cur.log)
                  /\ result = Error(SeriousFieldErrorMessage(
                                 SERIOUS_OUTCOME_FIELDS[k - 1],
                                 IF Answer(k).failed THEN TransportErrorStr
                                 ELSE HttpErrorStr(Answer(k))))

\* the first field was answered 404 and the four other fields with reports
\* are all in the result
C13_Witness ==
    /\ Returned /\ cur.req.op = "serious" /\ cur.req.limit = 0
    /\ ~IsError(result)
    /\ Len(cur.log) = 7
    /\ Answer(2) = Response(404, EmptyBody)
    /\ Len(result.results[1]) = 4
    /\ \A k \in 1..4 : result.results[1][k].term # "Death"

\* the place of an entry in a sequence of entries
Pos(seq, e) == CHOOSE k \in 1..Len(seq) : seq[k] = e

\* the entries of an invocation in the order in which it obtained them: as
\* the remote listed them, or field after field
Obtained ==
    CASE cur.req.op = "top" -> Answer(1).json.results[1]
      [] cur.req.op = "source" ->
            [ k \in 1..Len(Answer(1).json.results[1]) |->
                Entry(Qualification(Answer(1).json.results[1][k].term),
                      Answer(1).json.results[1][k].count) ]
      [] cur.req.op = "serious" ->
            LET asked == SelectSeq([ k \in 1..Len(cur.log) |-> k ],
                                   LAMBDA k : k \in CountedFields)
            IN  [ n \in 1..Len(asked) |-> FieldEntry(asked[n]) ]

\* the invocation fetched a result that lists entries
Listed ==
    /\ Returned /\ cur.found = "miss" /\ ~IsError(result)
    /\ result.results # None

\* the entries are in non-increasing order of count, ties in the order given
SortedStable(res, given) ==
    /\ \A i \in 1..Len(res) - 1 : res[i].count >= res[i + 1].count
    /\ \A i, j \in 1..Len(res) :
          (i < j /\ res[i].count = res[j].count)
              => Pos(given, res[i]) < Pos(given, res[j])

\* C14: the entries of a result of get_top_adverse_events,
\* get_serious_outcomes or get_report_source_data are in non-increasing
\* order of count, whatever the order of the remote, and entries of equal
\* count are in the order in which they were obtained.
C14_SortedByCount ==
    (Listed /\ cur.req.op \in { "top", "serious", "source" })
        => SortedStable(result.results[1], Obtained)

\* C15: a result of get_serious_outcomes or get_report_source_data has at
\* most limit entries, whatever the limit from 0 on: as many as the limit
\* when that many were obtained, all of the obtained ones otherwise, and no
\* entry left out has a higher count than an entry of the result.
C15_LimitedToHighest ==
    (Listed /\ cur.req.op \in { "serious", "source" }) =>
        LET res == result.results[1]
        IN  /\ Len(res) <= cur.req.limit
            /\ Len(res) = IF cur.req.limit < Len(Obtained)
                          THEN cur.req.limit ELSE Len(Obtained)
            /\ Range(res) \subseteq Range(Obtained)
            /\ \A e \in Range(Obtained) \ Range(res) :
                  \A r \in Range(res) : e.count <= r.count

\* C16: the clock never goes back, a step sends at most one request, and the
\* step that sends one lets REQUEST_DELAY_SECONDS pass first; so two
\* consecutive requests, of one invocation or of two, are at least that far
\* apart, and no request is sent while another is awaited.
C16_Throttled ==
    [][ /\ now' >= now
        /\ Len(cur'.log) > Len(cur.log) =>
              /\ Len(cur'.log) = Len(cur.log) + 1
              /\ SubSeq(cur'.log, 1, Len(cur.log)) = cur.log
              /\ now' >= now + REQUEST_DELAY_TICKS ]_vars

\* the first request of an invocation, sent one delay after the last request
\* of the invocation before it
C16_Witness ==
    /\ Called /\ Len(cur.log) = 1
    /\ Len(cache) = 1
    /\ cache[1].by.requests >= 1
    /\ now = cache[1].stored + REQUEST_DELAY_TICKS

\* what can follow the beginning of an error message
MessageTails ==
    { TopNotFoundTail(d) : d \in DrugNames }
    \cup { PairNotFoundTail(d) : d \in DrugNames }
    \cup { SourceNotFoundTail(d) : d \in DrugNames }
    \cup { SeriesNotFoundTail(d, e) : d \in DrugNames, e \in EventNames }
    \cup { HttpErrorStr(r) : r \in FaultyResponses }
    \cup { NetworkErrorTail(TransportErrorStr) }
    \cup { SeriousFieldErrorTail(f, e) :
             f \in Range(SERIOUS_OUTCOME_FIELDS),
             e \in { TransportErrorStr } \cup { HttpErrorStr(r) : r \in FaultyResponses } }

\* the message begins with the prefix
StartsWith(message, prefix) ==
    \E tail \in MessageTails : message = prefix \o tail

\* the kind of error a caller reads off a result
ErrorKind(r) ==
    IF ~IsError(r) THEN "none"
    ELSE IF StartsWith(r.error, NotFoundPrefix) THEN "not_found"
    ELSE IF StartsWith(r.error, HttpErrorPrefix) THEN "http"
    ELSE IF StartsWith(r.error, NetworkErrorPrefix) THEN "transport"
    ELSE "other"

\* the last request of the invocation is one whose failure is not passed over
LastIsRequired ==
    /\ Returned /\ cur.found = "miss" /\ Len(cur.log) >= 1
    /\ ~(cur.req.op = "serious" /\ Len(cur.log) = 1)

\* C17: when the last request of an invocation fails, the error returned
\* tells the kind of failure: a transport failure gives a network error, a
\* 4xx or 5xx status other than 404 gives an HTTP error that carries the
\* status, and a 404 on the first query of an operation gives a not-found
\* error; the three kinds of error differ in every operation.
C17_ErrorsClassified ==
    LastIsRequired =>
        LET n == Len(cur.log)
            r == Answer(n)
        IN  /\ r.failed => ErrorKind(result) = "transport"
            /\ (~r.failed /\ RaisesForStatus(r) /\ r.status_code # 404) =>
                  /\ ErrorKind(result) = "http"
                  /\ result.error = HttpErrorPrefix \o HttpErrorStr(r)
            /\ ( /\ ~r.failed /\ r.status_code = 404 /\ n = 1
                 /\ cur.req.op # "serious" )
               => ErrorKind(result) = "not_found"

\* the label of a code in a table, or Unknown (<code>)
Label(table, code) ==
    IF code \in DOMAIN table THEN table[code] ELSE "Unknown (" \o code \o ")"

\* every term of a get_report_source_data result is the label that
\* QUALIFICATION_MAPPING gives to a code the remote listed, with its count
SourceTermsLabelled ==
    (Listed /\ cur.req.op = "source") =>
        Range(result.results[1]) \subseteq
            { Entry(Label(QUALIFICATION_MAPPING, e.term), e.count) :
                e \in Range(Answer(1).json.results[1]) }

C19_OneGetBodyUnchanged ==
    ( /\ Returned /\ cur.found = "miss"
      /\ cur.req.op \in { "top", "pair" }
      /\ \A k \in 1..Len(cur.log) : Answered200(Answer(k)) )
    => /\ Len(cur.log) = 1
       /\ result = Data(Answer(1).json.results, Answer(1).json.total, None, None)

\* the most requests an invocation of an operation may send
MaxRequests(op) ==
    CASE op = "top"     -> 2
      [] op = "pair"    -> 2
      [] op = "serious" -> 7
      [] op = "series"  -> 1
      [] op = "source"  -> 1

\* the states in which an invocation is about to send a request
Fetching ==
    pc \in { "top_count", "top_total", "pair_drug", "pair_pair",
             "serious_total", "serious_field", "series", "source" }

\* an invocation sends at most 2, 2, 7, 1 and 1 requests in the five
\* operations, never the same request twice, and a request that failed, in
\* transport or with a status other than 200 and 404, is its last unless it
\* is the total query of get_serious_outcomes
RequestsBounded ==
    Called =>
        /\ Len(cur.log) <= MaxRequests(cur.req.op)
        /\ \A j, k \in 1..Len(cur.log) :
              j < k => cur.log[j].url # cur.log[k].url
        /\ \A k \in 1..Len(cur.log) - 1 :
              HardFailure(Answer(k)) => (cur.req.op = "serious" /\ k = 1)

\* C20: every invocation keeps within its bound of requests (2, 2, 7, 1, 1)
\* and sends no request again, failed or not; every step of an invocation
\* that has missed the cache sends one more request and either returns or
\* goes on to the next request, so the invocation returns after at most that
\* many steps.
C20_BoundedNoRetry ==
    [][ /\ RequestsBounded /\ RequestsBounded'
        /\ Fetching =>
              /\ Len(cur'.log) = Len(cur.log) + 1
              /\ pc' = "idle" \/ Fetching' ]_vars

\* an invocation returned after the seven requests of get_serious_outcomes,
\* one of them answered by a fault
C20_Witness ==
    /\ Returned /\ cur.req.op = "serious"
    /\ Len(cur.log) = 7
    /\ faults >= 1

\* what an operation may hand back: a payload with the fields of Data
IsPayload(r) ==
    DOMAIN r = { "results", "total", "total_for_drug", "total_reports_for_query" }

\* C21: every invocation that ends hands back a payload or a dict with an
\* 'error' message and never ends by raising, whatever the remote answered
\* and whenever the entry it found in the cache expires.
C21_NeverRaises ==
    Returned => /\ ~IsRaised(result)
                /\ IsPayload(result) \/ IsError(result)

\* the invocation in progress was made by top_adverse_events_tool
ByTool == Called /\ cur.tool # None

\* the ages the tool works with once its defaults are filled in
MinAge == OrDefault(cur.tool[1].min_age, 0)

MaxAge == OrDefault(cur.tool[1].max_age, 120)

\* the clauses other than the age clause of the query the tool asks for
OtherClauses ==
    << DrugClause(cur.drug_name_processed) >>
    \o (IF cur.req.patient_sex = None THEN << >>
        ELSE << "patient.patientsex:\"" \o cur.req.patient_sex[1] \o "\"" >>)

\* the age clause of the tool's ages
AgeClause ==
    "patient.patientonsetage:[" \o ToString(MinAge) \o " TO "
    \o ToString(MaxAge) \o "]"

\* the search the tool's query must carry: no age clause over the full range
\* of ages, one age clause after the other clauses otherwise
ExpectedSearch ==
    IF MinAge > 0 \/ MaxAge < 120
    THEN Join(Append(OtherClauses, AgeClause), "+AND+")
    ELSE Join(OtherClauses, "+AND+")

\* C22: top_adverse_events_tool passes an age range to the client exactly
\* when min_age > 0 or max_age < 120; over the full range (0, 120) the
\* queries sent carry no age clause, otherwise they carry the one clause
\* patient.patientonsetage:[min TO max], joined to the others by +AND+.
C22_AgeFilterOnlyWhenNarrowed ==
    ByTool =>
        /\ (cur.req.age_range # None) <=> (MinAge > 0 \/ MaxAge < 120)
        /\ cur.req.age_range # None
              => cur.req.age_range = Some(<< MinAge, MaxAge >>)
        /\ Len(cur.log) >= 1
              => cur.log[1].url = TopCountUrl(ExpectedSearch, cur.req.limit)
        /\ Len(cur.log) >= 2 => cur.log[2].url = TopTotalUrl(ExpectedSearch)

\* the tool was called with a narrowed range of ages, sent both of its
\* queries and returned what they gave
C22_Witness ==
    /\ ByTool /\ Returned
    /\ MinAge > 0 /\ MaxAge < 120
    /\ Len(cur.log) = 2
    /\ ~IsError(result)

\* the totals of a payload of get_drug_event_pair_frequency
TotalForPair(data) == OrDefault(data.total, 0)

TotalForDrug(data) == OrDefault(data.total_for_drug, 0)

\* the text that gives the share as the digits percentage
TextWithShare(data, percentage) ==
    PairFrequencyText(TotalForPair(data),
        PercentageString(percentage, TotalForDrug(data), cur.req.drug_name),
        cur.req.drug_name, cur.req.event_name)

\* the hundredths that are nearest to total_for_pair / total_for_drug * 100
Nearest(data, hundredths) ==
    LET distance == hundredths * TotalForDrug(data) - TotalForPair(data) * 10000
    IN  /\ 2 * distance <= TotalForDrug(data)
        /\ 2 * distance >= 0 - TotalForDrug(data)

\* C23: format_pair_frequency_results gives total_for_pair / total_for_drug
\* * 100 with two decimals (5.00% for 50 of 1000), and when total_for_drug is
\* 0 it gives no percentage and divides nothing.
C23_PercentageTwoDecimals ==
    [][ (pc' = "formatted" /\ ~IsError(result)) =>
          /\ ~IsRaised(result')
          /\ TotalForDrug(result) = 0 =>
                result'.text = PairFrequencyText(TotalForPair(result), "",
                                   cur.req.drug_name, cur.req.event_name)
          /\ TotalForDrug(result) > 0 =>
                \E more \in { 0, 1 } :
                    LET hundredths ==
                            (TotalForPair(result) * 10000)
                                \div TotalForDrug(result) + more
                    IN  /\ Nearest(result, hundredths)
                        /\ result'.text =
                               TextWithShare(result, Fixed2(hundredths))
          /\ (TotalForDrug(result) = 1000 /\ TotalForPair(result) = 50) =>
                result'.text = TextWithShare(result, "5.00") ]_vars

\* the text for 50 reports of the pair among 1000 of the drug
C23_Witness ==
    /\ pc = "formatted"
    /\ result =
          [text |->
              "Found **50** reports for the combination of 'Acetaminophen' "
              \o "and 'Rash'.\n\nThis combination accounts for **5.00%** of "
              \o "the **1,000** total adverse event reports for "
              \o "'Acetaminophen' in the database.\n\n**Source**: FDA FAERS "
              \o "via OpenFDA\n**Disclaimer**: Spontaneous reports do not "
              \o "prove causation. Consult a healthcare professional."]

\* get_top_adverse_events missed the cache and returned a payload
TopSucceeded ==
    /\ Returned /\ cur.req.op = "top"
    /\ cur.found = "miss"
    /\ ~IsError(result)

\* the search filter of the request: its drug, sex and age clauses
SearchFilter ==
    TopSearchQuery(cur.drug_name_processed, cur.req.patient_sex,
                   cur.req.age_range)

Normalized(req) ==
    [op |-> req.op,
     drug |-> ProcessDrugName(req.drug_name),
     event |-> IF NeedsEvent(req) THEN ProcessEventName(req.event_name) ELSE "",
     limit |-> req.limit,
     sex |-> req.patient_sex,
     age |-> req.age_range]

\* C25: a call has the key of an entry of the cache only when it is, once
\* normalized, the call that stored the entry (same operation, resolved drug
\* name, normalized event name, limit, sex filter and age range), also for
\* names that hold "_"; so a hit never returns what was fetched for another
\* request.
C25_KeysInjective ==
    \A k \in 1..Len(cache) :
        (Called /\ cache[k].key = cur.cache_key)
            => Normalized(cache[k].by.req) = Normalized(cur.req)

====
